---- MODULE Spec2Model ----
(***************************************************************************)
(* Model of valokuvakokoelma.py: the ingestion loop over a photo library   *)
(* dump, the Medium class (validation, content hashing, catalog dump) and  *)
(* the Labels class (label -> references index).                           *)
(*                                                                         *)
(* Representation.  Text that the program slices, concatenates or sorts    *)
(* (digests, references, labels, file names) is a tuple of one-character   *)
(* strings, so rep[:2], the f-string of a reference and list.sort() are    *)
(* computed as the code computes them.  Text that is only compared (kinds, *)
(* source paths, JSON booleans, diagnostics) is a TLA+ string.  A dict is  *)
(* a function whose DOMAIN is its key set, so d.get(k, default) can tell   *)
(* an absent key from a present one.                                       *)
(***************************************************************************)
EXTENDS Integers, Sequences, FiniteSets, TLC

VARIABLES
    db,           \* the loaded JSON array (line 198)
    number,       \* loop index of line 208 (0 before the first iteration)
    pc,           \* "loop" | "dump" | "done" | "aborted"
    medium,       \* the Medium object of the current iteration
    labeling,     \* labeling.to_refs, an insertion-ordered dict
    catalog,      \* files under DB_OUT_ROOT: path -> JSON body
    dirs,         \* directories under DB_OUT_ROOT created by mkdir
    labels_json,  \* the writes of ./labels.json, oldest first
    stdout,       \* the lines printed by the latest step
    exc,          \* the exception that ended the process ("" when none)
    earlier,      \* what the earlier runs over the same catalog root left
    lab,          \* Labels harness: two independent Labels objects
    out,          \* Labels harness: what each of them serialized
    seen,         \* Labels harness: the (label, reference) pairs passed to each
    before,       \* Labels harness: to_refs of each as dump found it
    noted,        \* Labels harness: the sorts of update calls each has had
    calls         \* Labels harness: number of update calls made

vars == <<db, number, pc, medium, labeling, catalog, dirs, labels_json,
          stdout, exc, earlier, lab, out, seen, before, noted, calls>>

pipeVars == <<db, number, pc, medium, labeling, catalog, dirs, labels_json,
              stdout, exc, earlier>>

harnessVars == <<lab, out, seen, before, noted, calls>>

-----------------------------------------------------------------------------
(* Bounds *)

MaxRecords == 2

MaxCalls == 3

MaxRuns == 2

-----------------------------------------------------------------------------
(* Python values *)

None == "None"

JsonTrue == "true"

JsonFalse == "false"

\* truthiness of a JSON boolean or None
Truthy(v) == v = JsonTrue

EmptyDict == <<>>

\* dict.get(key, default)
get(d, k, default) == IF k \in DOMAIN d THEN d[k] ELSE default

Range(s) == {s[i] : i \in DOMAIN s}

\* s[:2]
Prefix2(s) == IF Len(s) <= 2 THEN s ELSE SubSeq(s, 1, 2)

\* Code-point order of the characters that occur in references and labels.
Ascii ==
    <<"/", "0", "1", "2", "3", "4", "5", "6", "7", "8", "9", ":",
      "a", "b", "c", "d", "e", "f", "g", "h", "i", "j", "k", "l", "m",
      "n", "o", "p", "q", "r", "s", "t", "u", "v", "w", "x", "y", "z">>

Ord(c) == CHOOSE i \in DOMAIN Ascii : Ascii[i] = c

\* str.__lt__: lexicographic by code point, a proper prefix sorts first
RECURSIVE StrLess(_, _)
StrLess(a, b) ==
    IF a = <<>> THEN b # <<>>
    ELSE IF b = <<>> THEN FALSE
    ELSE IF Head(a) = Head(b) THEN StrLess(Tail(a), Tail(b))
    ELSE Ord(Head(a)) < Ord(Head(b))

RECURSIVE Insert(_, _)
Insert(x, s) ==
    IF s = <<>> THEN <<x>>
    ELSE IF StrLess(x, Head(s)) THEN <<x>> \o s
    ELSE <<Head(s)>> \o Insert(x, Tail(s))

\* sorted(seq) / list.sort() on a list of strings
RECURSIVE sorted(_)
sorted(s) == IF s = <<>> THEN <<>> ELSE Insert(Head(s), sorted(Tail(s)))

-----------------------------------------------------------------------------
(* Module constants *)

KINDS == [CLONE |-> "clone", LIVTO |-> "livto", PHOTO |-> "photo", VIDEO |-> "video"]

KindValues == {KINDS[k] : k \in DOMAIN KINDS}

\* The characters of str(kind), as an f-string renders it.
Chars(kind) ==
    CASE kind = "clone" -> <<"c", "l", "o", "n", "e">>
      [] kind = "livto" -> <<"l", "i", "v", "t", "o">>
      [] kind = "photo" -> <<"p", "h", "o", "t", "o">>
      [] kind = "video" -> <<"v", "i", "d", "e", "o">>
      [] OTHER -> <<"N", "o", "n", "e">>

DotJson == <<".", "j", "s", "o", "n">>

-----------------------------------------------------------------------------
(* The asset files the records point to, and their content hashes *)

\* Regular, readable files of the photo library: path -> content.
FILES ==
    ("/a.jpg" :> "bytesA") @@ ("/b.jpg" :> "bytesB") @@ ("/l.mov" :> "bytesL")

\* pathlib.Path(p).is_file()
is_file(p) == p \in DOMAIN FILES

\* hashlib.sha256(content).hexdigest(): injective on the contents in use, of
\* fixed length, lowercase hex, never empty.
HexDigest ==
    ("bytesA" :> <<"a", "b", "1">>) @@ ("bytesB" :> <<"a", "b", "7">>)
        @@ ("bytesL" :> <<"c", "0", "d">>)

sha256sum(path) == HexDigest[FILES[path]]

-----------------------------------------------------------------------------
(* hash_to_path *)

\* pathlib's "/": joining an empty component leaves the path as it is
PathJoin(p, c) == IF c = <<>> THEN p ELSE Append(p, c)

\* DB_OUT_ROOT / kind / rep[:2], relative to DB_OUT_ROOT
ShardFolder(kind, rep) == PathJoin(<<kind>>, Prefix2(rep))

\* faulty variant: the file is put in the kind folder, without the shard folder
hash_to_path_unsharded(kind, rep) == PathJoin(<<kind>>, rep \o DotJson)

\* the value hash_to_path returns when it does not raise
hash_to_path(kind, rep) == PathJoin(ShardFolder(kind, rep), rep \o DotJson)

\* faulty variant: lines 32-33 missing
UnknownKind_never(kind) == FALSE

\* hash_to_path raises ValueError
UnknownKind(kind) == kind \notin KindValues

\* folder.mkdir(parents=True, exist_ok=True)
mkdir(ds, folder) == ds \cup {SubSeq(folder, 1, n) : n \in 0..Len(folder)}

-----------------------------------------------------------------------------
(* class Labels *)

\* to_refs is an insertion-ordered dict: a sequence of [label, refs] items
KeysOf(to_refs) == [i \in DOMAIN to_refs |-> to_refs[i].label]

RefsOf(to_refs, label) ==
    LET i == CHOOSE j \in DOMAIN to_refs : to_refs[j].label = label
    IN  to_refs[i].refs

\* faulty variant: lines 52-54 without the test of line 53
AppendNew_always(list, refs) == list \o refs

\* lines 52-54
RECURSIVE AppendNew(_, _)
AppendNew(list, refs) ==
    IF refs = <<>> THEN list
    ELSE AppendNew(IF Head(refs) \in Range(list) THEN list
                   ELSE Append(list, Head(refs)),
                   Tail(refs))

\* lines 50-54, one label
UpdateLabel(to_refs, label, refs) ==
    LET present == IF label \in Range(KeysOf(to_refs)) THEN to_refs
                   ELSE Append(to_refs, [label |-> label, refs |-> <<>>])
    IN  [i \in DOMAIN present |->
            IF present[i].label = label
            THEN [present[i] EXCEPT !.refs = AppendNew(@, refs)]
            ELSE present[i]]

RECURSIVE UpdateEach(_, _, _)
UpdateEach(to_refs, labels, refs) ==
    IF labels = <<>> THEN to_refs
    ELSE UpdateEach(UpdateLabel(to_refs, Head(labels), refs), Tail(labels), refs)

\* Labels.update
Labels_update(to_refs, refs, labels) ==
    IF labels # <<>> /\ refs # <<>> THEN UpdateEach(to_refs, labels, refs)
    ELSE to_refs

\* faulty variant: line 60 missing, the lists stay in insertion order
SortRefs_missing(list) == list

\* line 60
SortRefs(list) == sorted(list)

\* Labels.dump: the dict it leaves in to_refs and writes as JSON
Labels_dump(to_refs) ==
    LET keys == sorted(KeysOf(to_refs))
    IN  [i \in DOMAIN keys |->
            [label |-> keys[i], refs |-> SortRefs(RefsOf(to_refs, keys[i]))]]

-----------------------------------------------------------------------------
(* class Medium *)

\* f'{kind}:{rep[:2]}/{rep}'
Reference(kind, rep) == Chars(kind) \o <<":">> \o Prefix2(rep) \o <<"/">> \o rep

\* lines 70-94: the attributes before _validate runs
Fresh(ndx, media_entry) ==
    [medium           |-> media_entry,
     ndx              |-> ndx,
     is_photo         |-> get(media_entry, "isphoto", None),
     is_video         |-> get(media_entry, "ismovie", None),
     is_screenshot    |-> get(media_entry, "screenshot", None),
     species          |-> None,
     is_missing       |-> get(media_entry, "ismissing", None),
     is_cloudasset    |-> get(media_entry, "iscloudasset", None),
     path_str         |-> get(media_entry, "path", ""),
     path_live_photo  |-> get(media_entry, "path_live_photo", ""),
     path_to_medium   |-> "",
     path_to_secondary |-> "",
     error            |-> FALSE,
     error_detail     |-> "",
     messages         |-> <<>>,
     content_rep      |-> <<>>,
     live_rep         |-> <<>>,
     refs             |-> <<>>]

\* faulty variant: line 125 deciding on is_video first
SpeciesOf_video_first(is_photo, is_video) ==
    IF Truthy(is_video) THEN KINDS.VIDEO ELSE KINDS.PHOTO

\* line 125
SpeciesOf(is_photo, is_video) ==
    IF Truthy(is_photo) THEN KINDS.PHOTO ELSE KINDS.VIDEO

\* faulty variant: line 127 testing `is not False`, so that an absent
\* screenshot flag counts as a screenshot
ScreenshotOverride_unless_false(species, is_screenshot) ==
    IF is_screenshot # JsonFalse THEN KINDS.CLONE ELSE species

\* faulty variant: lines 127-128 missing
ScreenshotOverride_missing(species, is_screenshot) == species

\* lines 127-128
ScreenshotOverride(species, is_screenshot) ==
    IF Truthy(is_screenshot) THEN KINDS.CLONE ELSE species

\* faulty variant: line 131 testing `not e` instead of `e is None`
Warnings_falsy(m) ==
    (IF \E e \in {m.is_video, m.is_photo, m.is_screenshot, m.is_missing, m.is_cloudasset} :
           ~Truthy(e)
     THEN <<"WARNING_META_NONE">> ELSE <<>>)
    \o (IF Truthy(m.is_missing)
        THEN (IF Truthy(m.is_cloudasset) THEN <<"OUT_OF_SYNC">> ELSE <<"IS_MISSING">>)
        ELSE <<>>)

\* lines 130-138: the warnings appended to messages
Warnings(m) ==
    (IF None \in {m.is_video, m.is_photo, m.is_screenshot, m.is_missing, m.is_cloudasset}
     THEN <<"WARNING_META_NONE">> ELSE <<>>)
    \o (IF Truthy(m.is_missing)
        THEN (IF Truthy(m.is_cloudasset) THEN <<"OUT_OF_SYNC">> ELSE <<"IS_MISSING">>)
        ELSE <<>>)

\* Medium._validate
validate(m) ==
    IF ~Truthy(m.is_photo) /\ ~Truthy(m.is_video)
    THEN [m EXCEPT !.error = TRUE, !.error_detail = "is neither photo nor video"]
    ELSE LET s == [m EXCEPT
                     !.species = ScreenshotOverride(SpeciesOf(m.is_photo, m.is_video),
                                                    m.is_screenshot),
                     !.messages = m.messages \o Warnings(m)]
         IN  IF s.path_str = ""
             THEN [s EXCEPT !.error = TRUE, !.error_detail = "IGNORE_EMPTY_PATH"]
             ELSE s

\* Medium._hash_content
hash_content(m) ==
    LET p == [m EXCEPT !.path_to_medium = m.path_str]
    IN  IF ~is_file(p.path_to_medium)
        THEN [p EXCEPT !.error = TRUE, !.error_detail = "path not found"]
        ELSE LET q == [p EXCEPT
                         !.messages = Append(@, "points to"),
                         !.path_to_secondary =
                             IF p.path_live_photo # "" THEN p.path_live_photo ELSE @]
                 r == [q EXCEPT
                         !.messages = IF q.path_live_photo # ""
                                      THEN Append(@, "HAS_LIVE_NOVIE") ELSE @,
                         !.content_rep = sha256sum(q.path_to_medium)]
             IN  IF r.content_rep = <<>>
                 THEN [r EXCEPT !.error = TRUE, !.error_detail = "no content rep"]
                 ELSE r

\* Medium._hash_live: defined by the class, called from nowhere in the file
hash_live(m) ==
    IF m.path_live_photo # ""
    THEN LET r == [m EXCEPT !.live_rep = sha256sum(m.path_to_secondary)]
         IN  IF r.live_rep = <<>>
             THEN [r EXCEPT !.error = TRUE, !.error_detail = "no live rep"]
             ELSE r
    ELSE m

\* faulty variant: lines 100-101 without the test of content_rep
CollectRefs_untested(m) ==
    LET a == Append(m.refs, Reference(m.species, m.content_rep))
    IN  IF m.live_rep # <<>>
        THEN Append(a, Reference(KINDS.LIVTO, m.live_rep)) ELSE a

\* lines 100-103
CollectRefs(m) ==
    LET a == IF m.content_rep # <<>>
             THEN Append(m.refs, Reference(m.species, m.content_rep)) ELSE m.refs
    IN  IF m.live_rep # <<>>
        THEN Append(a, Reference(KINDS.LIVTO, m.live_rep)) ELSE a

\* faulty variant: line 97 without its test of self.error
EntersHashing_always(v) == TRUE

\* lines 96-97: whether __init__ enters the block that hashes and registers
EntersHashing(v) == ~v.error

\* Medium.__init__: the object it leaves
Medium(ndx, media_entry) ==
    LET v == validate(Fresh(ndx, media_entry))
    IN  IF EntersHashing(v)
        THEN LET h == hash_content(v) IN [h EXCEPT !.refs = CollectRefs(h)]
        ELSE v

\* Medium.__init__: what it leaves in labels.to_refs (line 104)
Medium_labels(ndx, media_entry, to_refs) ==
    IF EntersHashing(validate(Fresh(ndx, media_entry)))
    THEN Labels_update(to_refs, Medium(ndx, media_entry).refs,
                       get(media_entry, "labels", <<>>))
    ELSE to_refs

\* faulty variant: an existing file is kept and the body goes to a new file
\* beside it
Put_beside_existing(cat, path, body) ==
    LET target == IF path \in DOMAIN cat THEN Append(path, <<"1">>) ELSE path
    IN  [q \in (DOMAIN cat) \cup {target} |-> IF q = target THEN body ELSE cat[q]]

\* faulty variant: an existing file is left as it is
Put_first_wins(cat, path, body) ==
    [q \in (DOMAIN cat) \cup {path} |-> IF q \in DOMAIN cat THEN cat[q] ELSE body]

\* open(path, 'wt') followed by json.dump(body)
Put(cat, path, body) ==
    [q \in (DOMAIN cat) \cup {path} |-> IF q = path THEN body ELSE cat[q]]

\* One `with open(hash_to_path(kind, rep), 'wt') ...: json.dump(...)` statement.
\* st carries the file system and the exception raised so far; fails says
\* whether this open() raises OSError.
WriteJson(st, kind, rep, body, fails) ==
    IF UnknownKind(kind) THEN [st EXCEPT !.exc = "ValueError"]
    ELSE LET made == [st EXCEPT !.dirs = mkdir(@, ShardFolder(kind, rep))]
         IN  IF fails THEN [made EXCEPT !.exc = "OSError"]
             ELSE [made EXCEPT !.catalog = Put(@, hash_to_path(kind, rep), body)]

\* line 179
HasCompanion(m) == m.path_live_photo # ""

\* Medium._dump.  failAt: 0 when every open() succeeds, k when the k-th fails.
dump_(m, cat, ds, failAt) ==
    LET s0 == [catalog |-> cat, dirs |-> ds, exc |-> "",
               messages |-> Append(m.messages, "content_rep")]
        s1 == WriteJson(s0, m.species, m.content_rep, m.medium, failAt = 1)
    IN  IF s1.exc = "" /\ HasCompanion(m)
        THEN WriteJson([s1 EXCEPT !.messages = Append(@, "live_rep")],
                       KINDS.LIVTO, m.live_rep, m.medium, failAt = 2)
        ELSE s1

\* faulty variant: line 219 catching the OSError of a failed open() as well
Caught_with_OSError == {"RuntimeError", "OSError"}

\* The exceptions the loop body catches around medium.dump() (line 219)
Caught == {"RuntimeError"}

-----------------------------------------------------------------------------
(* Inputs *)

Flag(k) == {EmptyDict, k :> JsonTrue, k :> JsonFalse}

AllFalse ==
    [isphoto |-> JsonFalse, ismovie |-> JsonFalse, screenshot |-> JsonFalse,
     ismissing |-> JsonFalse, iscloudasset |-> JsonFalse]

\* flag settings of the media records of multi-record inputs
FlagSettings ==
    {[AllFalse EXCEPT !.isphoto = JsonTrue],
     [AllFalse EXCEPT !.ismovie = JsonTrue]}

\* path / path_live_photo settings of the records of multi-record inputs
PathSettings ==
    {"path" :> "",
     "path" :> "/gone.jpg",
     "path" :> "/a.jpg",
     "path" :> "/b.jpg",
     ("path" :> "/a.jpg") @@ ("path_live_photo" :> "/l.mov"),
     ("path" :> "/a.jpg") @@ ("path_live_photo" :> "/gone.mov")}

LabelSettings == {"labels" :> <<>>, "labels" :> << <<"b">>, <<"a">> >>}

\* the records of multi-record inputs: media records, and records that are
\* neither photo nor video
Records ==
    {f @@ p @@ l : f \in FlagSettings, p \in PathSettings, l \in LabelSettings}
    \cup {AllFalse @@ ("path" :> "/a.jpg") @@ l : l \in LabelSettings}

\* single records over every setting of the five flags
FlagRecords ==
    {a @@ b @@ c @@ d @@ e @@ p @@ ("labels" :> << <<"a">> >>) :
        a \in Flag("isphoto"), b \in Flag("ismovie"), c \in Flag("screenshot"),
        d \in Flag("ismissing"), e \in Flag("iscloudasset"),
        p \in {EmptyDict, "path" :> "", "path" :> "/a.jpg"}}

Inputs ==
    UNION {[1..n -> Records] : n \in 1..MaxRecords} \cup {<<r>> : r \in FlagRecords}

\* outcomes of the open() calls of one _dump: see dump_
IOOutcomes == {0, 1, 2}

-----------------------------------------------------------------------------
(* The ingestion loop, lines 207-227 *)

Init ==
    /\ db \in Inputs
    /\ number = 0
    /\ pc = "loop"
    /\ medium = Fresh(0, EmptyDict)
    /\ labeling = <<>>
    /\ catalog = <<>>
    /\ dirs = {}
    /\ labels_json = <<>>
    /\ stdout = <<>>
    /\ exc = ""
    /\ earlier = <<>>
    /\ lab = [a |-> <<>>, b |-> <<>>]
    /\ out = [a |-> <<>>, b |-> <<>>]
    /\ seen = [a |-> {}, b |-> {}]
    /\ before = [a |-> <<>>, b |-> <<>>]
    /\ noted = [a |-> {}, b |-> {}]
    /\ calls = 0

\* line 211: medium = Medium(number, thing, labeling); it raises nothing
Construct ==
    /\ pc = "loop"
    /\ number < Len(db)
    /\ number' = number + 1
    /\ medium' = Medium(number', db[number'])
    /\ labeling' = Medium_labels(number', db[number'], labeling)
    /\ pc' = "dump"
    /\ stdout' = <<>>
    /\ UNCHANGED <<db, catalog, dirs, labels_json, exc, earlier, harnessVars>>

\* lines 217-222: medium.dump() and the printing that follows it
Dump ==
    /\ pc = "dump"
    /\ \E failAt \in IOOutcomes :
         LET r == dump_(medium, catalog, dirs, failAt)
             \* line 115: dump raises RuntimeError after _dump returned
             raised == IF r.exc # "" THEN r.exc
                       ELSE IF medium.error THEN "RuntimeError" ELSE ""
         IN  /\ catalog' = r.catalog
             /\ dirs' = r.dirs
             /\ medium' = [medium EXCEPT !.messages = r.messages]
             /\ IF raised = "" \/ raised \in Caught
                THEN /\ pc' = "loop"
                     /\ exc' = exc
                     /\ stdout' = (IF raised = "" THEN <<>>
                                   ELSE << <<medium.error_detail>> >>)
                                  \o <<r.messages>>
                ELSE /\ pc' = "aborted"
                     /\ exc' = raised
                     /\ stdout' = <<>>
    /\ UNCHANGED <<db, number, labeling, labels_json, earlier, harnessVars>>

\* lines 225-227: labeling.dump(labels.json); print('OK')
Serialize ==
    /\ pc = "loop"
    /\ number = Len(db)
    /\ labeling' = Labels_dump(labeling)
    /\ labels_json' = Append(labels_json, labeling')
    /\ stdout' = << <<"OK">> >>
    /\ pc' = "done"
    /\ UNCHANGED <<db, number, medium, catalog, dirs, exc, earlier, harnessVars>>

Next == Construct \/ Dump \/ Serialize

Spec == Init /\ [][Next]_vars

\* The script started again on the same input file, once a run has ended
\* without a failed open(): lines 186-207 anew, the files under DB_OUT_ROOT
\* and ./labels.json being what the ended run left.
Rerun ==
    /\ pc = "done" \/ (pc = "aborted" /\ exc = "ValueError")
    /\ Len(earlier) + 1 < MaxRuns
    /\ earlier' = Append(earlier, [catalog |-> catalog, labels_json |-> labels_json])
    /\ number' = 0
    /\ pc' = "loop"
    /\ medium' = Fresh(0, EmptyDict)
    /\ labeling' = <<>>
    /\ stdout' = <<>>
    /\ exc' = ""
    /\ UNCHANGED <<db, catalog, dirs, labels_json, harnessVars>>

NextRerun == Construct \/ Dump \/ Serialize \/ Rerun

SpecRerun == Init /\ [][NextRerun]_vars

-----------------------------------------------------------------------------
(* Labels on its own: two Labels objects driven by arbitrary update calls,  *)
(* each serialized once by dump.                                           *)

HarnessRefs ==
    {Reference(KINDS.PHOTO, HexDigest["bytesB"]),
     Reference(KINDS.PHOTO, HexDigest["bytesA"])}

HarnessLabels == {<<"b">>, <<"a", "b">>}

\* the lists of length 0..2 over S, repeats included
Lists(S) == UNION {[1..n -> S] : n \in 0..2}

InitLabels ==
    /\ db = <<>>
    /\ number = 0
    /\ pc = "harness"
    /\ medium = Fresh(0, EmptyDict)
    /\ labeling = <<>>
    /\ catalog = <<>>
    /\ dirs = {}
    /\ labels_json = <<>>
    /\ stdout = <<>>
    /\ exc = ""
    /\ earlier = <<>>
    /\ lab = [a |-> <<>>, b |-> <<>>]
    /\ out = [a |-> <<>>, b |-> <<>>]
    /\ seen = [a |-> {}, b |-> {}]
    /\ before = [a |-> <<>>, b |-> <<>>]
    /\ noted = [a |-> {}, b |-> {}]
    /\ calls = 0

\* labels.update(refs, labels) on one of the objects
Register ==
    /\ calls < MaxCalls
    /\ \E who \in {"a", "b"}, refs \in Lists(HarnessRefs), labels \in Lists(HarnessLabels) :
         /\ out[who] = <<>>
         /\ lab' = [lab EXCEPT ![who] = Labels_update(@, refs, labels)]
         /\ seen' = [seen EXCEPT ![who] = @ \cup {<<l, r>> : l \in Range(labels), r \in Range(refs)}]
         /\ noted' = [noted EXCEPT ![who] =
                          @ \cup (IF labels = <<>> \/ refs = <<>> THEN {"empty"} ELSE {})
                            \cup (IF Len(labels) * Len(refs) > Cardinality(seen'[who] \ seen[who])
                                  THEN {"repeat"} ELSE {})]
    /\ calls' = calls + 1
    /\ UNCHANGED <<pipeVars, out, before>>

\* labels.dump(path) on one of the objects
SerializeLabels ==
    /\ \E who \in {"a", "b"} :
         /\ out[who] = <<>>
         /\ lab' = [lab EXCEPT ![who] = Labels_dump(@)]
         /\ out' = [out EXCEPT ![who] = <<Labels_dump(lab[who])>>]
         /\ before' = [before EXCEPT ![who] = lab[who]]
    /\ UNCHANGED <<pipeVars, seen, noted, calls>>

NextLabels == Register \/ SerializeLabels

SpecLabels == InitLabels /\ [][NextLabels]_vars

-----------------------------------------------------------------------------
(* Vocabulary of the properties, stated on the input records themselves    *)

\* the record of the current iteration (`thing`, line 208)
Thing == db[number]

\* a Medium has been constructed in this run
Started == number >= 1

\* the loop body of the current record ran to its end
BodyDone == Started /\ pc \in {"loop", "done"}

IsTrue(r, k) == k \in DOMAIN r /\ r[k] = JsonTrue

PathOf(r) == IF "path" \in DOMAIN r THEN r["path"] ELSE ""

LivePathOf(r) == IF "path_live_photo" \in DOMAIN r THEN r["path_live_photo"] ELSE ""

LabelsOf(r) == IF "labels" \in DOMAIN r THEN r["labels"] ELSE <<>>

\* neither isphoto nor ismovie is true
NotMedia(r) == ~IsTrue(r, "isphoto") /\ ~IsTrue(r, "ismovie")

\* a valid species, but path empty or absent
EmptyPath(r) == ~NotMedia(r) /\ PathOf(r) = ""

PassesValidation(r) == ~NotMedia(r) /\ PathOf(r) # ""

\* passes validation, but path is no existing regular file
PathNotFound(r) == PassesValidation(r) /\ PathOf(r) \notin DOMAIN FILES

\* passes validation and the primary asset can be hashed
Hashable(r) == PassesValidation(r) /\ PathOf(r) \in DOMAIN FILES

\* the content digest of the file at path p
DigestOf(p) == HexDigest[FILES[p]]

\* root/kind/digest[0:2]/digest.json
AddressOf(kind, d) == <<kind, SubSeq(d, 1, 2), d \o DotJson>>

\* "kind:digest[0:2]/digest"
RefOf(kind, d) == Chars(kind) \o <<":">> \o SubSeq(d, 1, 2) \o <<"/">> \o d

\* reference ref is registered under label l
Registered(to_refs, l, ref) ==
    \E i \in DOMAIN to_refs : to_refs[i].label = l /\ ref \in Range(to_refs[i].refs)

\* the files of the catalog whose body is record r
FilesHolding(cat, r) == {p \in DOMAIN cat : cat[p] = r}

\* the two catalogs differ at path p
Touched(cat, cat2, p) ==
    \/ (p \in DOMAIN cat) # (p \in DOMAIN cat2)
    \/ p \in DOMAIN cat /\ p \in DOMAIN cat2 /\ cat[p] # cat2[p]

-----------------------------------------------------------------------------
(* C1 .. C10 *)

\* C1: a record that fails validation (NOT_MEDIA, EMPTY_PATH) or whose
\* primary asset cannot be hashed never aborts the run: the process is never
\* ended by an exception while such a record is the current one (a failed
\* open() of a catalog file, the case of persistence errors, apart).
C1_FailedRecordNeverAborts ==
    (Started /\ (NotMedia(Thing) \/ EmptyPath(Thing) \/ PathNotFound(Thing)))
        => (pc = "aborted" => exc = "OSError")

\* C2: for a record that passes validation but whose path is no existing
\* regular file, construction ends in a hashing error, the dump step writes
\* no catalog file, and the run goes on to the next record (a failed open()
\* apart).
C2_PathNotFoundWritesNothing ==
    [][(pc = "dump" /\ PathNotFound(Thing))
          => /\ medium.error /\ medium.content_rep = <<>>
             /\ catalog' = catalog
             /\ (pc' = "loop" \/ exc' = "OSError")]_vars

\* C3: for a record with a hashable primary asset and a non-empty
\* path_live_photo that cannot be read, the dump step persists the primary
\* catalog file at the primary address and writes no file under kind livto
\* (a failed open() apart).
C3_UnreadableCompanionWritesNoLivto ==
    [][(pc = "dump" /\ Hashable(Thing) /\ LivePathOf(Thing) # ""
            /\ LivePathOf(Thing) \notin DOMAIN FILES /\ pc' = "loop")
          => LET here == AddressOf(medium.species, DigestOf(PathOf(Thing)))
             IN  /\ here \in DOMAIN catalog' /\ catalog'[here] = Thing
                 /\ \A p \in (DOMAIN catalog) \cup (DOMAIN catalog') :
                      p[1] = KINDS.LIVTO => ~Touched(catalog, catalog', p)]_vars

\* C4: for a record with a hashable primary asset and a readable
\* path_live_photo of digest L, once the loop body has run the entry's
\* references hold livto:L[0:2]/L, that reference is registered under every
\* label of the record, and root/livto/L[0:2]/L.json holds the record.
C4_CompanionHashedAndPersisted ==
    (BodyDone /\ Hashable(Thing) /\ LivePathOf(Thing) \in DOMAIN FILES)
        => LET L == DigestOf(LivePathOf(Thing))
               there == AddressOf(KINDS.LIVTO, L)
           IN  /\ RefOf(KINDS.LIVTO, L) \in Range(medium.refs)
               /\ \A l \in Range(LabelsOf(Thing)) :
                    Registered(labeling, l, RefOf(KINDS.LIVTO, L))
               /\ there \in DOMAIN catalog /\ catalog[there] = Thing

\* C5: a record in which neither isphoto nor ismovie is true yields the
\* NOT_MEDIA error with no species, and neither its construction nor its
\* dump step changes the catalog or the label index, whatever its labels.
C5_NotMediaLeavesNoTrace ==
    [][/\ (pc = "loop" /\ number < Len(db) /\ NotMedia(db[number + 1]))
            => /\ medium'.error
               /\ medium'.error_detail = "is neither photo nor video"
               /\ medium'.species = None
               /\ labeling' = labeling
               /\ catalog' = catalog
       /\ (pc = "dump" /\ NotMedia(Thing))
            => (catalog' = catalog /\ labeling' = labeling)]_vars

\* a NOT_MEDIA record with labels was the second record, after one that
\* left a file and a label, and its dump step has run
C5_Witness ==
    /\ number = 2 /\ pc = "aborted"
    /\ NotMedia(Thing) /\ LabelsOf(Thing) # <<>>
    /\ DOMAIN catalog # {} /\ labeling # <<>>

\* C6: a record with a valid species but an empty or absent path yields the
\* EMPTY_PATH error, nothing is hashed for it, no label is registered, and
\* its dump step writes no catalog file, primary or livto.
C6_EmptyPathWritesNothing ==
    [][/\ (pc = "loop" /\ number < Len(db) /\ EmptyPath(db[number + 1]))
            => /\ medium'.error /\ medium'.error_detail = "IGNORE_EMPTY_PATH"
               /\ medium'.content_rep = <<>> /\ medium'.live_rep = <<>>
               /\ labeling' = labeling
       /\ (pc = "dump" /\ EmptyPath(Thing)) => catalog' = catalog]_vars

\* C7: for a record that passes validation with species s and whose primary
\* asset hashes to d, the reference s:d[0:2]/d is registered under every
\* label of the record from its construction on, and once its loop body
\* has run root/s/d[0:2]/d.json holds the record.
C7_PrimaryPersistedAndRegistered ==
    (Started /\ Hashable(Thing))
        => LET s == medium.species
               d == DigestOf(PathOf(Thing))
           IN  /\ s \in {KINDS.PHOTO, KINDS.VIDEO, KINDS.CLONE}
               /\ \A l \in Range(LabelsOf(Thing)) : Registered(labeling, l, RefOf(s, d))
               /\ BodyDone => /\ AddressOf(s, d) \in DOMAIN catalog
                              /\ catalog[AddressOf(s, d)] = Thing

\* the second record was hashable and labelled, and the run has ended
C7_Witness ==
    /\ number = 2 /\ pc = "done"
    /\ Hashable(Thing) /\ Len(LabelsOf(Thing)) = 2
    /\ AddressOf(medium.species, DigestOf(PathOf(Thing))) \in DOMAIN catalog
    /\ Len(labeling) = 2

\* C8 as stated: with isphoto or ismovie true and screenshot not true, the
\* species is video whenever ismovie is true, and photo otherwise.
C8_VideoWhenIsmovie ==
    (Started /\ ~NotMedia(Thing) /\ ~IsTrue(Thing, "screenshot"))
        => medium.species = IF IsTrue(Thing, "ismovie") THEN KINDS.VIDEO ELSE KINDS.PHOTO

\* C8 as amended: with isphoto or ismovie true and screenshot not true, the
\* species is photo whenever isphoto is true (also when ismovie is true as
\* well), and video otherwise.
C8_PhotoWhenIsphoto ==
    (Started /\ ~NotMedia(Thing) /\ ~IsTrue(Thing, "screenshot"))
        => medium.species = IF IsTrue(Thing, "isphoto") THEN KINDS.PHOTO ELSE KINDS.VIDEO

\* a record with isphoto and ismovie both true was classified and dumped
C8_Witness ==
    /\ BodyDone
    /\ IsTrue(Thing, "isphoto") /\ IsTrue(Thing, "ismovie")
    /\ ~IsTrue(Thing, "screenshot")
    /\ medium.species = KINDS.PHOTO

\* C9: with isphoto or ismovie true and screenshot true, the species is
\* clone; when the primary asset hashes to d the primary reference is
\* clone:d[0:2]/d and, once the loop body has run, root/clone/d[0:2]/d.json
\* holds the record; no file under photo or video holds a screenshot record.
C9_ScreenshotIsClone ==
    /\ (Started /\ ~NotMedia(Thing) /\ IsTrue(Thing, "screenshot"))
         => /\ medium.species = KINDS.CLONE
            /\ Hashable(Thing)
                 => LET d == DigestOf(PathOf(Thing))
                    IN  /\ medium.refs # <<>>
                        /\ medium.refs[1] = RefOf(KINDS.CLONE, d)
                        /\ BodyDone => /\ AddressOf(KINDS.CLONE, d) \in DOMAIN catalog
                                       /\ catalog[AddressOf(KINDS.CLONE, d)] = Thing
    /\ \A p \in DOMAIN catalog :
         p[1] \in {KINDS.PHOTO, KINDS.VIDEO} => ~IsTrue(catalog[p], "screenshot")

\* a hashable screenshot record with ismovie true and isphoto not true was
\* dumped under clone
C9_Witness ==
    /\ BodyDone
    /\ IsTrue(Thing, "screenshot") /\ IsTrue(Thing, "ismovie") /\ ~IsTrue(Thing, "isphoto")
    /\ Hashable(Thing)
    /\ \E p \in DOMAIN catalog : p[1] = KINDS.CLONE /\ Len(p) = 3

\* a list of strings in lexicographic order
InOrder(s) == \A i, j \in DOMAIN s : i < j => ~StrLess(s[j], s[i])

\* C10: two Labels objects that were passed the same set of (label,
\* reference) pairs, by whatever update calls, serialize the same index;
\* its label keys are in lexicographic order and so is every reference list.
C10_OrderIndependent ==
    /\ (out.a # <<>> /\ out.b # <<>> /\ seen.a = seen.b) => out.a = out.b
    /\ \A w \in {"a", "b"} :
         out[w] # <<>>
            => /\ InOrder(KeysOf(out[w][1]))
               /\ \A i \in DOMAIN out[w][1] : InOrder(out[w][1][i].refs)

\* both objects were serialized after receiving the same two or more pairs in
\* orders that left their dicts different
C10_Witness ==
    /\ out.a # <<>> /\ out.b # <<>>
    /\ seen.a = seen.b /\ Cardinality(seen.a) >= 2
    /\ before.a # before.b

-----------------------------------------------------------------------------
(* C11 .. C20 *)

\* the current run has ended and no open() failed in it
RunEnded == pc = "done" \/ (pc = "aborted" /\ exc = "ValueError")

\* C11: when a run over the same input, started from the catalog an earlier
\* run left, has ended, every catalog file has the content the earlier run
\* left, no file was added, and the label index written is the one the
\* earlier run wrote.
C11_RerunChangesNothing ==
    (earlier # <<>> /\ RunEnded)
        => LET was == earlier[Len(earlier)]
           IN  /\ catalog = was.catalog
               /\ pc = "done"
                    => /\ Len(labels_json) = Len(was.labels_json) + 1
                       /\ labels_json[Len(labels_json)]
                            = was.labels_json[Len(was.labels_json)]

\* a second run over two hashable, labelled records of one address has ended
C11_Witness ==
    /\ earlier # <<>> /\ pc = "done" /\ number = 2
    /\ Hashable(db[1]) /\ Hashable(db[2]) /\ db[1] # db[2]
    /\ PathOf(db[1]) = PathOf(db[2])
    /\ LabelsOf(db[1]) # <<>>
    /\ Len(labels_json) = 2 /\ labels_json[2] # <<>>

\* record r without the keys in K
WithoutKeys(r, K) == [k \in (DOMAIN r) \ K |-> r[k]]

\* the records that differ from r only in what affects warnings alone:
\* ismissing, iscloudasset, and screenshot being false or absent
WarningVariants(r) ==
    {WithoutKeys(r, {"ismissing", "iscloudasset", "screenshot"}) @@ a @@ b @@ c :
        a \in Flag("ismissing"), b \in Flag("iscloudasset"),
        c \in IF IsTrue(r, "screenshot") THEN {"screenshot" :> JsonTrue}
              ELSE {EmptyDict, "screenshot" :> JsonFalse}}

\* C12: what the run did with its first record is what it does with every
\* record that differs from it only in ismissing, iscloudasset, or in
\* screenshot being false or absent: the same error outcome, species and
\* references, the same label registrations, the same catalog paths written
\* and the same end of the dump step.
C12_WarningsDoNotAlterPersistence ==
    (number = 1 /\ earlier = <<>> /\ pc # "done")
        => \A r2 \in WarningVariants(Thing) :
             LET m2 == Medium(1, r2)
                 fs == dump_(m2, <<>>, {}, 0)
             IN  /\ m2.error = medium.error
                 /\ m2.error_detail = medium.error_detail
                 /\ m2.species = medium.species
                 /\ m2.refs = medium.refs
                 /\ Medium_labels(1, r2, <<>>) = labeling
                 /\ pc = "loop" => (fs.exc = "" /\ DOMAIN fs.catalog = DOMAIN catalog)
                 /\ (pc = "aborted" /\ exc = "ValueError")
                      => (fs.exc = "ValueError" /\ fs.catalog = catalog)

\* a hashable, labelled record with ismissing and iscloudasset true and no
\* screenshot key got its OUT_OF_SYNC and META warnings and was dumped
C12_Witness ==
    /\ number = 1 /\ pc = "loop"
    /\ Hashable(Thing) /\ LabelsOf(Thing) # <<>>
    /\ IsTrue(Thing, "ismissing") /\ IsTrue(Thing, "iscloudasset")
    /\ "screenshot" \notin DOMAIN Thing
    /\ {"OUT_OF_SYNC", "WARNING_META_NONE"} \subseteq Range(medium.messages)
    /\ DOMAIN catalog # {} /\ labeling # <<>>

\* C13: a failed open() of a catalog file does not end the run: the process
\* is never ended by the OSError (the following records are then processed
\* and the label index serialized).
C13_WriteFailureDoesNotAbort == ~(pc = "aborted" /\ exc = "OSError")

\* C14: every catalog file lies at root/kind/digest[0:2]/digest.json, kind
\* one of the four kinds and digest the digest, of length 2 at least, of a
\* file the record it holds points to; no address comes from an empty digest.
C14_AddressesComeFromDigests ==
    \A p \in DOMAIN catalog :
        \E kind \in {"photo", "video", "clone", "livto"},
           f \in {PathOf(catalog[p]), LivePathOf(catalog[p])} \cap DOMAIN FILES :
            /\ Len(DigestOf(f)) >= 2
            /\ p = AddressOf(kind, DigestOf(f))

NoDuplicates(list) == \A i, j \in DOMAIN list : i # j => list[i] # list[j]

\* C15: after any update calls no label's reference list holds a reference
\* twice, and a call that passes no new (label, reference) pair, as every
\* call with an empty reference list or an empty label list does, leaves the
\* index as it was.
C15_SetSemantics ==
    /\ [](\A w \in {"a", "b"} : \A i \in DOMAIN lab[w] : NoDuplicates(lab[w][i].refs))
    /\ [][(calls' = calls + 1 /\ seen' = seen) => lab' = lab]_vars

\* object a has had a call with an empty list and a call repeating a pair,
\* and holds the one pair it was passed once
C15_Witness ==
    /\ noted.a = {"empty", "repeat"}
    /\ Cardinality(seen.a) = 1
    /\ Len(lab.a) = 1 /\ Len(lab.a[1].refs) = 1

FiveFlags == {"ismovie", "isphoto", "screenshot", "ismissing", "iscloudasset"}

\* C16: for a record with isphoto or ismovie true, the META warning is among
\* the entry's messages exactly when one of the five flags is absent from
\* the record; a flag that is present and false does not bring it.
C16_MetaWarningIffFlagAbsent ==
    (Started /\ ~NotMedia(Thing))
        => (("WARNING_META_NONE" \in Range(medium.messages))
               <=> (\E k \in FiveFlags : k \notin DOMAIN Thing))

\* a record with all five flags present, four of them false, was
\* constructed and carries no META warning
C16_Witness ==
    /\ Started /\ FiveFlags \subseteq DOMAIN Thing
    /\ Cardinality({k \in FiveFlags : Thing[k] = JsonFalse}) = 4
    /\ "WARNING_META_NONE" \notin Range(medium.messages)

\* C17: when the dump step resolves an address for a kind outside {photo,
\* video, clone, livto} (the undefined species), it ends in the unknown-kind
\* ValueError, and neither a directory nor a file has been created.
C17_UnknownKindCreatesNothing ==
    [][(pc = "dump" /\ medium.species \notin {"photo", "video", "clone", "livto"})
          => /\ exc' = "ValueError" /\ pc' = "aborted"
             /\ dirs' = dirs
             /\ catalog' = catalog]_vars

\* the second record had no species and its dump step ended in the
\* ValueError, shard directories of the first record being there
C17_Witness ==
    /\ number = 2 /\ pc = "aborted" /\ exc = "ValueError"
    /\ medium.species = None
    /\ \E dir \in dirs : Len(dir) = 2

\* the species the classification rules give a media record
SpeciesFor(r) ==
    IF IsTrue(r, "screenshot") THEN "clone"
    ELSE IF IsTrue(r, "isphoto") THEN "photo" ELSE "video"

\* the (kind, digest) address the primary asset of a hashable record has
PrimaryAddress(r) == AddressOf(SpeciesFor(r), DigestOf(PathOf(r)))

\* C18: after a run, the file at the address of a hashable record holds the
\* last record of the input that has this address, and it is the only file
\* of that kind named after that digest.
C18_LastWriteWins ==
    (pc = "done" /\ earlier = <<>>)
        => \A i \in DOMAIN db :
             Hashable(db[i])
                => LET here == PrimaryAddress(db[i])
                       last == CHOOSE j \in DOMAIN db :
                                 /\ Hashable(db[j]) /\ PrimaryAddress(db[j]) = here
                                 /\ \A k \in DOMAIN db :
                                      (Hashable(db[k]) /\ PrimaryAddress(db[k]) = here)
                                         => k <= j
                   IN  /\ here \in DOMAIN catalog
                       /\ catalog[here] = db[last]
                       /\ {p \in DOMAIN catalog :
                             p[1] = here[1] /\ p[Len(p)] = here[3]} = {here}

\* two different records of one address were ingested and the run ended
C18_Witness ==
    /\ pc = "done" /\ earlier = <<>> /\ number = 2
    /\ Hashable(db[1]) /\ Hashable(db[2])
    /\ PrimaryAddress(db[1]) = PrimaryAddress(db[2])
    /\ db[1] # db[2]
    /\ catalog[PrimaryAddress(db[1])] = db[2]

\* the label index as the last write of labels.json holds it
Serialized == labels_json[Len(labels_json)]

\* C19: when the label index has been serialized, every reference under
\* every label is kind:d[0:2]/d for a kind and a digest d such that the
\* file root/kind/d[0:2]/d.json was written in this run.
C19_IndexPointsAtPersisted ==
    (pc = "done" /\ earlier = <<>>)
        => \A i \in DOMAIN Serialized : \A k \in DOMAIN Serialized[i].refs :
             \E kind \in {"photo", "video", "clone", "livto"},
                f \in DOMAIN FILES :
                 /\ Serialized[i].refs[k] = RefOf(kind, DigestOf(f))
                 /\ AddressOf(kind, DigestOf(f)) \in DOMAIN catalog

\* a run of two labelled records of different addresses was serialized
C19_Witness ==
    /\ pc = "done" /\ earlier = <<>> /\ number = 2
    /\ labels_json # <<>>
    /\ Len(Serialized) = 2 /\ Len(Serialized[1].refs) = 2

\* C20: an entry that leaves construction with its error flag set has an
\* empty reference list, and its construction left the label index as it
\* was, whatever labels its record carries.
C20_FailedEntryRegistersNothing ==
    [][(pc = "loop" /\ pc' = "dump" /\ medium'.error)
          => (medium'.refs = <<>> /\ labeling' = labeling)]_vars

\* the second record, labelled, failed for a path that does not exist, after
\* a record that registered labels
C20_Witness ==
    /\ number = 2 /\ pc = "dump"
    /\ medium.error /\ medium.error_detail = "path not found"
    /\ LabelsOf(Thing) # <<>>
    /\ labeling # <<>>

====
